---- MODULE Spec2Model ----
(***************************************************************************)
(* A model of outlines/text/json_schema.py: the translation of a JSON      *)
(* Schema document into a regular expression.                              *)
(*                                                                         *)
(* A schema node (a Python dict) is a record: `keys` is the set of keys    *)
(* the dict holds, and one field per key holds its value (a blank value    *)
(* when the key is absent).  Python strings that the code indexes or       *)
(* escapes character by character (`pattern`, the members of `enum`) are   *)
(* sequences of one-character strings; regex fragments are strings.        *)
(***************************************************************************)
EXTENDS Integers, Sequences, FiniteSets, TLC

VARIABLES pc, doc, resolver, result, log, stack, exc, stats

vars == <<pc, doc, resolver, result, log, stack, exc, stats>>

(***************************************************************************)
(* Bounds of the model.                                                    *)
(***************************************************************************)
\* the longest list of sub-schemas (properties, allOf, anyOf, oneOf) drawn
MaxChildren == 3
\* the largest minLength / maxLength drawn
MaxLength == 2
\* the interpreter's limit on nested to_regex calls (sys.getrecursionlimit)
StackLimit == 6

(***************************************************************************)
(* Sequence and string helpers (Python built-ins the code relies on).      *)
(***************************************************************************)
\* "".join(parts)
Join(parts) ==
    LET upto[i \in 0..Len(parts)] ==
            IF i = 0 THEN "" ELSE upto[i - 1] \o parts[i]
    IN upto[Len(parts)]

\* sep.join(parts)
JoinWith(parts, sep) ==
    LET upto[i \in 0..Len(parts)] ==
            IF i = 0 THEN ""
            ELSE IF i = 1 THEN parts[1]
            ELSE upto[i - 1] \o sep \o parts[i]
    IN upto[Len(parts)]

\* the concatenation of a sequence of sequences
Flatten(ss) ==
    LET upto[i \in 0..Len(ss)] ==
            IF i = 0 THEN <<>> ELSE upto[i - 1] \o ss[i]
    IN upto[Len(ss)]

Range(s) == {s[i] : i \in 1..Len(s)}

Max2(a, b) == IF a >= b THEN a ELSE b

DigitChar == <<"0", "1", "2", "3", "4", "5", "6", "7", "8", "9">>

RECURSIVE NatChars(_)
\* the decimal digits of a natural number, as characters
NatChars(n) ==
    IF n < 10 THEN <<DigitChar[n + 1]>>
    ELSE NatChars(n \div 10) \o <<DigitChar[(n % 10) + 1]>>

\* str(n) for a Python int
IntChars(n) == IF n < 0 THEN <<"-">> \o NatChars(-n) ELSE NatChars(n)

\* the characters re.escape puts a backslash before (Python >= 3.7)
SpecialChars ==
    {"(", ")", "[", "]", "{", "}", "?", "*", "+", "-", "|", "^", "$", "\\",
     ".", "&", "~", "#", " ", "\t", "\n", "\r", "\f"}

\* re.escape(s), s a sequence of characters; the result is a string
re_escape(chars) ==
    Join([i \in 1..Len(chars) |->
            IF chars[i] \in SpecialChars THEN "\\" \o chars[i] ELSE chars[i]])

(***************************************************************************)
(* The primitive fragment table.                                           *)
(***************************************************************************)
STRING_INNER == "(?:[^\"\\\\\\x00-\\x1f\\x7f-\\x9f]|\\\\.)"
STRING_REGEX == "\"" \o STRING_INNER \o "*\""
INTEGER == "(0|[1-9][0-9]*)"
NUMBER == "(-)?(" \o INTEGER \o ")(\\.[0-9]+)?([eE][+-][0-9]+)?"
BOOLEAN_REGEX == "(true|false)"
NULL == "null"

type_to_regex ==
    [string |-> STRING_REGEX, integer |-> INTEGER, number |-> NUMBER,
     boolean |-> BOOLEAN_REGEX, null |-> NULL]

whitespace == "[\\n ]*"

(***************************************************************************)
(* Schema nodes.                                                           *)
(***************************************************************************)
\* the value of `type`: one name, or a list of names
TypeName(n) == [isList |-> FALSE, name |-> n, names |-> <<>>]
TypeList(ns) == [isList |-> TRUE, name |-> "", names |-> ns]
NoType == TypeName("")

\* the empty dict {}
Blank ==
    [keys |-> {}, properties |-> <<>>, allOf |-> <<>>, anyOf |-> <<>>,
     oneOf |-> <<>>, enum |-> <<>>, ref |-> "", type |-> NoType,
     items |-> <<>>, minLength |-> 0, maxLength |-> 0, pattern |-> <<>>]

Has(instance, key) == key \in instance.keys

\* the dict with `key` set to `value`
With(instance, key, value) ==
    CASE key = "properties" ->
            [instance EXCEPT !.keys = @ \cup {key}, !.properties = value]
      [] key = "allOf" -> [instance EXCEPT !.keys = @ \cup {key}, !.allOf = value]
      [] key = "anyOf" -> [instance EXCEPT !.keys = @ \cup {key}, !.anyOf = value]
      [] key = "oneOf" -> [instance EXCEPT !.keys = @ \cup {key}, !.oneOf = value]
      [] key = "enum" -> [instance EXCEPT !.keys = @ \cup {key}, !.enum = value]
      [] key = "$ref" -> [instance EXCEPT !.keys = @ \cup {key}, !.ref = value]
      [] key = "type" -> [instance EXCEPT !.keys = @ \cup {key}, !.type = value]
      [] key = "items" -> [instance EXCEPT !.keys = @ \cup {key}, !.items = value]
      [] key = "minLength" ->
            [instance EXCEPT !.keys = @ \cup {key}, !.minLength = value]
      [] key = "maxLength" ->
            [instance EXCEPT !.keys = @ \cup {key}, !.maxLength = value]
      [] key = "pattern" ->
            [instance EXCEPT !.keys = @ \cup {key}, !.pattern = value]

\* the dict without `key`
Without(instance, key) ==
    CASE key = "properties" ->
            [instance EXCEPT !.keys = @ \ {key}, !.properties = <<>>]
      [] key = "allOf" -> [instance EXCEPT !.keys = @ \ {key}, !.allOf = <<>>]
      [] key = "anyOf" -> [instance EXCEPT !.keys = @ \ {key}, !.anyOf = <<>>]
      [] key = "oneOf" -> [instance EXCEPT !.keys = @ \ {key}, !.oneOf = <<>>]
      [] key = "enum" -> [instance EXCEPT !.keys = @ \ {key}, !.enum = <<>>]
      [] key = "$ref" -> [instance EXCEPT !.keys = @ \ {key}, !.ref = ""]
      [] key = "type" -> [instance EXCEPT !.keys = @ \ {key}, !.type = NoType]
      [] key = "items" -> [instance EXCEPT !.keys = @ \ {key}, !.items = <<>>]
      [] key = "minLength" ->
            [instance EXCEPT !.keys = @ \ {key}, !.minLength = 0]
      [] key = "maxLength" ->
            [instance EXCEPT !.keys = @ \ {key}, !.maxLength = 0]
      [] key = "pattern" ->
            [instance EXCEPT !.keys = @ \ {key}, !.pattern = <<>>]

\* {"type": t}
T(t) == With(Blank, "type", TypeName(t))
\* {"$ref": path}
Ref(path) == With(Blank, "$ref", path)
\* one entry of `properties`
Prop(name, value) == [name |-> name, value |-> value]

\* the members of an `enum`: JSON strings, integers, booleans and null
EStr(chars) == [kind |-> "str", chars |-> chars, int |-> 0, bool |-> FALSE]
EInt(n) == [kind |-> "int", chars |-> <<>>, int |-> n, bool |-> FALSE]
EBool(b) == [kind |-> "bool", chars |-> <<>>, int |-> 0, bool |-> b]
ENull == [kind |-> "null", chars |-> <<>>, int |-> 0, bool |-> FALSE]

\* str(choice)
str(choice) ==
    CASE choice.kind = "str" -> choice.chars
      [] choice.kind = "int" -> IntChars(choice.int)
      [] choice.kind = "bool" ->
            IF choice.bool THEN <<"T", "r", "u", "e">>
            ELSE <<"F", "a", "l", "s", "e">>
      [] choice.kind = "null" -> <<"N", "o", "n", "e">>

(***************************************************************************)
(* Results, errors and the record of what a translation did.               *)
(***************************************************************************)
\* an exception: its class and the node (or reference) its message names
Err(type, node) == [type |-> type, node |-> node]
NoErr == Err("", Blank)

\* what one step of a to_regex call comes to: a fragment or an exception
Ok(re) == [kind |-> "ok", re |-> re, err |-> NoErr]
Fail(err) == [kind |-> "err", re |-> "", err |-> err]

\* one entry of the record of a translation: a to_regex call (at a nesting
\* depth, with the resolver it was given), a resolver.lookup, or a raise
Event(op, rid, node, depth, err) ==
    [op |-> op, rid |-> rid, node |-> node, depth |-> depth, err |-> err]

(***************************************************************************)
(* The reference resolver (the `referencing` registry built from the root  *)
(* document): "#" is the root, "#/$defs/<name>" a definition of it.        *)
(***************************************************************************)
\* a reference "#..." is looked up in the resource registered under the
\* resolver's base URI
Resolvable(res, path) ==
    /\ res.uri = res.base_uri
    /\ path = "#" \/ path \in DOMAIN res.defs

\* every reference resolved to the root of the document
lookup_root(res, path) == res.root

\* resolver.lookup(path).contents
lookup(res, path) == IF path = "#" THEN res.root ELSE res.defs[path]

(***************************************************************************)
(* to_regex: the dispatch and the fragment each branch builds.             *)
(***************************************************************************)
\* the keys the dispatch tests, in the order it tests them
RankedKeys == <<"properties", "allOf", "anyOf", "oneOf", "enum", "$ref", "type">>

\* dispatch with `$ref` tested before `enum` and `type` before both
dispatch_reordered(instance) ==
    IF Has(instance, "properties") THEN "properties"
    ELSE IF Has(instance, "allOf") THEN "allOf"
    ELSE IF Has(instance, "anyOf") THEN "anyOf"
    ELSE IF Has(instance, "oneOf") THEN "oneOf"
    ELSE IF Has(instance, "type") THEN "type"
    ELSE IF Has(instance, "$ref") THEN "$ref"
    ELSE IF Has(instance, "enum") THEN "enum"
    ELSE "none"

\* the branch a node is translated by: the if / elif chain
dispatch(instance) ==
    IF Has(instance, "properties") THEN "properties"
    ELSE IF Has(instance, "allOf") THEN "allOf"
    ELSE IF Has(instance, "anyOf") THEN "anyOf"
    ELSE IF Has(instance, "oneOf") THEN "oneOf"
    ELSE IF Has(instance, "enum") THEN "enum"
    ELSE IF Has(instance, "$ref") THEN "$ref"
    ELSE IF Has(instance, "type") THEN "type"
    ELSE "none"

\* properties_regex with the separator written after the last property too
properties_regex_trailing_comma(instance, frags) ==
    LET n == Len(instance.properties)
        entry(i) ==
            whitespace \o "\"" \o instance.properties[i].name \o "\""
                \o whitespace \o ":" \o whitespace \o frags[i]
                \o whitespace \o ","
    IN "\\{" \o Join([i \in 1..n |-> entry(i)]) \o whitespace \o "\\}"

\* the `properties` branch, given the fragments of the values
properties_regex(instance, frags) ==
    LET n == Len(instance.properties)
        entry(i) ==
            whitespace \o "\"" \o instance.properties[i].name \o "\""
                \o whitespace \o ":" \o whitespace \o frags[i]
                \o (IF i - 1 < n - 1 THEN whitespace \o "," ELSE "")
    IN "\\{" \o Join([i \in 1..n |-> entry(i)]) \o whitespace \o "\\}"

\* the `allOf` branch
allOf_regex(subregexes) == "(" \o Join(subregexes) \o ")"

RECURSIVE permutations(_, _)
\* itertools.permutations(range(1, n + 1), r): the r-arrangements of the
\* positions 1..n, in lexicographic order
permutations(n, r) ==
    IF r = 0 THEN << <<>> >>
    ELSE LET shorter == permutations(n, r - 1)
             extend(p) ==
                SelectSeq([i \in 1..n |-> Append(p, i)],
                          LAMBDA q : q[Len(q)] \notin Range(p))
         IN Flatten([k \in 1..Len(shorter) |-> extend(shorter[k])])

\* anyOf_arrangements with itertools.combinations in place of permutations
anyOf_arrangements_combinations(n) ==
    LET increasing(p) == \A i \in 1..(Len(p) - 1) : p[i] < p[i + 1]
    IN Flatten([r \in 1..n |-> SelectSeq(permutations(n, r), increasing)])

\* the arrangements of the positions 1..n the `anyOf` branch lists:
\* for r in range(1, n + 1) for c in it.permutations(subregexes, r)
anyOf_arrangements(n) == Flatten([r \in 1..n |-> permutations(n, r)])

\* the arrangement lists of up to MaxChildren positions, computed once
arrangement_table == [n \in 0..MaxChildren |-> anyOf_arrangements(n)]

\* the `anyOf` branch
anyOf_regex(subregexes) ==
    LET n == Len(subregexes)
        cs == IF n <= MaxChildren THEN arrangement_table[n]
              ELSE anyOf_arrangements(n)
        combinations ==
            [k \in 1..Len(cs) |->
                "(" \o Join([j \in 1..Len(cs[k]) |-> subregexes[cs[k][j]]])
                    \o ")"]
    IN "(" \o JoinWith(combinations, "|") \o ")"

\* the `oneOf` branch
oneOf_regex(subregexes) == "(" \o JoinWith(subregexes, "|") \o ")"

\* the `enum` branch; instance["type"] raises KeyError without a `type`, and
\* re.escape raises TypeError on a member that is not a string
enum_regex(instance) ==
    IF ~Has(instance, "type") THEN Fail(Err("KeyError", instance))
    ELSE IF instance.type = TypeName("string")
    THEN IF \E i \in 1..Len(instance.enum) : instance.enum[i].kind # "str"
         THEN Fail(Err("TypeError", instance))
         ELSE
         Ok("(" \o JoinWith([i \in 1..Len(instance.enum) |->
                    "\"" \o re_escape(instance.enum[i].chars) \o "\""], "|")
                \o ")")
    ELSE Ok("(" \o JoinWith([i \in 1..Len(instance.enum) |->
                    re_escape(str(instance.enum[i]))], "|")
                \o ")")

\* f"{instance.get(key, '')}" for a length bound
bound_text(instance, key) ==
    IF ~Has(instance, key) THEN ""
    ELSE Join(IntChars(IF key = "maxLength" THEN instance.maxLength
                       ELSE instance.minLength))

\* the exception the body of the try block raises ("" when it raises none):
\* int('') of an absent bound, or the raise for maxLength < minLength
length_check(instance) ==
    IF ~Has(instance, "maxLength") THEN "ValueError"
    ELSE IF ~Has(instance, "minLength") THEN "ValueError"
    ELSE IF instance.maxLength < instance.minLength THEN "ValueError"
    ELSE ""

\* the try block without its except clause
length_check_unhandled(raised) == FALSE

\* except ValueError: pass
length_check_handled(raised) == raised = "ValueError"

\* a string with minLength and / or maxLength
string_length_regex(instance) ==
    LET raised == length_check(instance)
    IN IF raised # "" /\ ~length_check_handled(raised)
       THEN Fail(Err(raised, instance))
       ELSE Ok("\"" \o STRING_INNER \o "{" \o bound_text(instance, "minLength")
                 \o "," \o bound_text(instance, "maxLength") \o "}\"")

\* a string with a pattern; pattern[0] raises IndexError on ""
string_pattern_regex(instance) ==
    LET pattern == instance.pattern
    IN IF pattern = <<>> THEN Fail(Err("IndexError", instance))
       ELSE IF pattern[1] = "^" /\ pattern[Len(pattern)] = "$"
       THEN Ok("(^\"" \o Join(SubSeq(pattern, 2, Len(pattern) - 1)) \o "\"$)")
       ELSE Ok("(\"" \o Join(pattern) \o "\")")

\* type == "string"
string_regex(instance) ==
    IF Has(instance, "maxLength") \/ Has(instance, "minLength")
    THEN string_length_regex(instance)
    ELSE IF Has(instance, "pattern") THEN string_pattern_regex(instance)
    ELSE Ok(type_to_regex["string"])

\* the nodes translated for an array without `items`
array_types ==
    <<T("boolean"), T("null"), T("number"), T("integer"), T("string")>>

\* an array with `items`, given the fragment of the items
array_items_regex(items_regex) ==
    "\\[(" \o items_regex \o ")(,(" \o items_regex \o "))*\\]"

\* an array without `items`, given the fragments of array_types
array_any_regex(regexes) ==
    "\\[(" \o JoinWith(regexes, "|") \o ")(,(" \o JoinWith(regexes, "|")
        \o "))*\\]"

\* `type` as a list, given the fragments of its members
type_list_regex(regexes) == "(" \o JoinWith(regexes, "|") \o ")"

\* a catch-all fragment in place of the raise
not_implemented_catch_all(instance) == Ok(".*")

\* the raise at the end of to_regex
not_implemented(instance) == Fail(Err("NotImplementedError", instance))

\* [{"type": t} for t in type if t != "object"]
type_list_nodes(names) ==
    LET kept == SelectSeq(names, LAMBDA t : t # "object")
    IN [i \in 1..Len(kept) |-> T(kept[i])]

(***************************************************************************)
(* One to_regex call, split at its recursive calls: `plan` is what the     *)
(* call does before them (a fragment or an exception at once, kind "leaf", *)
(* or the nodes it translates, in the order it translates them, kind       *)
(* "calls"), `assemble` what it returns from their fragments.              *)
(***************************************************************************)
Leaf(r) == [kind |-> "leaf", res |-> r, subs |-> <<>>]
Calls(subs) == [kind |-> "calls", res |-> Ok(""), subs |-> subs]

\* the `type` branch
plan_type(instance) ==
    LET type == instance.type
    IN IF type = TypeName("string") THEN Leaf(string_regex(instance))
       ELSE IF type = TypeName("number") THEN Leaf(Ok(type_to_regex["number"]))
       ELSE IF type = TypeName("integer") THEN Leaf(Ok(type_to_regex["integer"]))
       ELSE IF type = TypeName("array")
       THEN IF Has(instance, "items") THEN Calls(instance.items)
            ELSE Calls(array_types)
       ELSE IF type = TypeName("boolean") THEN Leaf(Ok(type_to_regex["boolean"]))
       ELSE IF type = TypeName("null") THEN Leaf(Ok(type_to_regex["null"]))
       ELSE IF type.isList THEN Calls(type_list_nodes(type.names))
       ELSE Leaf(not_implemented(instance))

plan(res, instance) ==
    LET branch == dispatch(instance)
    IN CASE branch = "properties" ->
              Calls([i \in 1..Len(instance.properties) |->
                        instance.properties[i].value])
         [] branch = "allOf" -> Calls(instance.allOf)
         [] branch = "anyOf" -> Calls(instance.anyOf)
         [] branch = "oneOf" -> Calls(instance.oneOf)
         [] branch = "enum" -> Leaf(enum_regex(instance))
         [] branch = "$ref" ->
              IF Resolvable(res, instance.ref)
              THEN Calls(<<lookup(res, instance.ref)>>)
              ELSE Leaf(Fail(Err("Unresolvable", instance)))
         [] branch = "type" -> plan_type(instance)
         [] OTHER -> Leaf(not_implemented(instance))

assemble(instance, frags) ==
    LET branch == dispatch(instance)
    IN CASE branch = "properties" -> properties_regex(instance, frags)
         [] branch = "allOf" -> allOf_regex(frags)
         [] branch = "anyOf" -> anyOf_regex(frags)
         [] branch = "oneOf" -> oneOf_regex(frags)
         [] branch = "$ref" -> frags[1]
         [] branch = "type" ->
              IF instance.type.isList THEN type_list_regex(frags)
              ELSE IF Has(instance, "items") THEN array_items_regex(frags[1])
              ELSE array_any_regex(frags)

\* a resolver of its own for the node a reference resolves to
child_resolver_fresh(res, instance) ==
    IF dispatch(instance) = "$ref" THEN [res EXCEPT !.id = @ + 1] ELSE res

\* the resolver a recursive call is given: the one the call itself got
child_resolver(res, instance) == res

(***************************************************************************)
(* to_regex as a function: the fragment or the exception, with the record  *)
(* of the calls, lookups and raises made on the way (`trace`) and the      *)
(* deepest nesting of calls (`maxd`).  A call nested deeper than           *)
(* StackLimit raises RecursionError instead of running.                    *)
(***************************************************************************)
Out(r, trace, maxd) ==
    [kind |-> r.kind, re |-> r.re, err |-> r.err, trace |-> trace, maxd |-> maxd]

RECURSIVE to_regex(_, _, _)
RECURSIVE call_children(_, _, _)

\* call_children with the exception of a recursive call caught and an empty
\* fragment put in its place
call_children_swallow(res, subs, depth) ==
    IF subs = <<>>
    THEN [kind |-> "ok", frags |-> <<>>, err |-> NoErr, trace |-> <<>>,
          maxd |-> 0]
    ELSE LET first == to_regex(res, Head(subs), depth)
             rest == call_children(res, Tail(subs), depth)
         IN [kind |-> "ok",
             frags |-> <<first.re>> \o rest.frags,
             err |-> NoErr,
             trace |-> first.trace \o rest.trace,
             maxd |-> Max2(first.maxd, rest.maxd)]

\* the recursive calls of one to_regex call, in order; the first exception
\* ends them (nothing in to_regex catches an exception of a recursive call)
call_children(res, subs, depth) ==
    IF subs = <<>>
    THEN [kind |-> "ok", frags |-> <<>>, err |-> NoErr, trace |-> <<>>,
          maxd |-> 0]
    ELSE LET first == to_regex(res, Head(subs), depth)
         IN IF first.kind = "err"
            THEN [kind |-> "err", frags |-> <<>>, err |-> first.err,
                  trace |-> first.trace, maxd |-> first.maxd]
            ELSE LET rest == call_children(res, Tail(subs), depth)
                 IN [kind |-> rest.kind,
                     frags |-> IF rest.kind = "ok"
                               THEN <<first.re>> \o rest.frags ELSE <<>>,
                     err |-> rest.err,
                     trace |-> first.trace \o rest.trace,
                     maxd |-> Max2(first.maxd, rest.maxd)]

to_regex(res, instance, depth) ==
    IF depth > StackLimit
    THEN LET e == Err("RecursionError", Blank)
         IN Out(Fail(e), <<Event("raise", res.id, instance, depth, e)>>,
                depth - 1)
    ELSE
    LET p == plan(res, instance)
        called == <<Event("call", res.id, instance, depth, NoErr)>>
        looked == IF dispatch(instance) = "$ref"
                  THEN <<Event("lookup", res.id, instance, depth, NoErr)>>
                  ELSE <<>>
    IN IF p.kind = "leaf"
       THEN Out(p.res,
                called \o looked \o
                    (IF p.res.kind = "err"
                     THEN <<Event("raise", res.id, instance, depth, p.res.err)>>
                     ELSE <<>>),
                depth)
       ELSE LET c == call_children(child_resolver(res, instance), p.subs,
                                   depth + 1)
            IN IF c.kind = "err"
               THEN Out(Fail(c.err), called \o looked \o c.trace,
                        Max2(depth, c.maxd))
               ELSE Out(Ok(assemble(instance, c.frags)),
                        called \o looked \o c.trace, Max2(depth, c.maxd))

(***************************************************************************)
(* The schema documents drawn as input.                                    *)
(***************************************************************************)
\* the $defs every document carries, by the reference that names them
Defs ==
    [p \in {"#/$defs/A", "#/$defs/B", "#/$defs/C", "#/$defs/D", "#/$defs/E",
            "#/$defs/F"} |->
        CASE p = "#/$defs/A" -> T("integer")
          [] p = "#/$defs/B" -> Ref("#/$defs/A")
          [] p = "#/$defs/C" ->
                With(Blank, "properties", <<Prop("next", Ref("#/$defs/C"))>>)
          [] p = "#/$defs/D" -> Ref("#/$defs/D")
          [] p = "#/$defs/E" -> Blank
          [] p = "#/$defs/F" ->
                With(Blank, "allOf", <<Blank, Ref("#/$defs/F")>>)]

RefPaths == DOMAIN Defs \cup {"#", "#/$defs/missing"}

\* a string node; each argument is <<>> (the key is absent) or <<value>>
StringNode(min, max, pattern) ==
    LET a == T("string")
        b == IF min = <<>> THEN a ELSE With(a, "minLength", min[1])
        c == IF max = <<>> THEN b ELSE With(b, "maxLength", max[1])
    IN IF pattern = <<>> THEN c ELSE With(c, "pattern", pattern[1])

Lengths == {<<>>} \cup {<<n>> : n \in 0..MaxLength}

Patterns ==
    {<<>>, <<"^">>, <<"^", "$">>, <<"^", "a", "+", "$">>, <<"a", "|", "b">>}

StringNodes ==
    {StringNode(min, max, <<>>) : min \in Lengths, max \in Lengths}
    \cup {StringNode(<<>>, <<>>, <<p>>) : p \in Patterns}
    \cup {StringNode(<<MaxLength>>, <<0>>, <<<<"^", "a", "+", "$">>>>),
          StringNode(<<>>, <<1>>, <<<<>>>>)}

EnumNode(type, members) ==
    LET a == With(Blank, "enum", members)
    IN IF type = NoType THEN a ELSE With(a, "type", type)

EnumMembers ==
    {<<EStr(<<"r", "e", "d">>), EStr(<<"a", ".", "b">>)>>,
     <<EInt(1), EInt(-12), EInt(305)>>,
     <<EBool(TRUE), ENull, EStr(<<"x", "|", "y">>)>>,
     <<EInt(7)>>}

EnumNodes ==
    {EnumNode(t, m) :
        t \in {NoType, TypeName("string"), TypeName("integer"),
               TypeList(<<"string">>)},
        m \in EnumMembers}

TypeNodes ==
    {T(t) : t \in {"string", "integer", "number", "boolean", "null", "array",
                   "object", "float"}}
    \cup {With(Blank, "type", TypeList(ns)) :
            ns \in {<<"string", "null">>, <<"object">>, <<"object", "integer">>,
                    <<"array", "boolean">>, <<"integer", "float">>, <<>>}}

RefNodes == {Ref(p) : p \in RefPaths}

\* the nodes without sub-schemas
LeafNodes == {Blank} \cup TypeNodes \cup StringNodes \cup EnumNodes \cup RefNodes

\* the nodes the lists of sub-schemas are drawn from
ChildPool == {T("integer"), T("string"), T("object"), Ref("#/$defs/A")}

ChildLists == UNION {[1..n -> ChildPool] : n \in 0..MaxChildren}

\* a `properties` mapping declaring the values under the names p1, p2, ...
\* (forward) or under those names in reverse
Properties(values, forward) ==
    [i \in 1..Len(values) |->
        Prop("p" \o ToString(IF forward THEN i ELSE Len(values) + 1 - i),
             values[i])]

ListNodes ==
    {With(Blank, k, cs) : k \in {"allOf", "anyOf", "oneOf"}, cs \in ChildLists}
    \cup {With(Blank, "properties", Properties(cs, f)) :
            cs \in ChildLists, f \in BOOLEAN}

\* a node with the one sub-schema x under the key k
Wrap(k, x) ==
    CASE k = "properties" -> With(Blank, "properties", <<Prop("v", x)>>)
      [] k = "items" -> With(T("array"), "items", <<x>>)
      [] k = "anyOf" -> With(Blank, "anyOf", <<T("null"), x>>)
      [] OTHER -> With(Blank, k, <<x>>)

Wrappers == {"properties", "allOf", "anyOf", "oneOf", "items"}

InnerPool ==
    {T("integer"), T("object"), Blank, Ref("#/$defs/B"), Ref("#/$defs/C"),
     Ref("#/$defs/missing"), Ref("#"), Ref("#/$defs/F"),
     EnumNode(NoType, <<EInt(7)>>), StringNode(<<2>>, <<1>>, <<>>),
     With(Blank, "type", TypeList(<<"array", "float">>))}

NestedNodes ==
    {Wrap(k, x) : k \in Wrappers, x \in InnerPool}
    \cup {Wrap(k1, Wrap(k2, x)) : k1 \in Wrappers, k2 \in Wrappers, x \in InnerPool}
    \cup {Wrap(k1, Wrap(k2, Wrap(k3, x))) :
            k1 \in Wrappers, k2 \in Wrappers, k3 \in {"properties", "items"},
            x \in {T("integer"), Blank, Ref("#/$defs/B")}}

\* instance[key]
Get(instance, key) ==
    CASE key = "properties" -> instance.properties
      [] key = "allOf" -> instance.allOf
      [] key = "anyOf" -> instance.anyOf
      [] key = "oneOf" -> instance.oneOf
      [] key = "enum" -> instance.enum
      [] key = "$ref" -> instance.ref
      [] key = "type" -> instance.type
      [] key = "items" -> instance.items
      [] key = "minLength" -> instance.minLength
      [] key = "maxLength" -> instance.maxLength
      [] key = "pattern" -> instance.pattern

AllKeys ==
    <<"properties", "allOf", "anyOf", "oneOf", "enum", "$ref", "type", "items",
      "minLength", "maxLength", "pattern">>

RECURSIVE MergeKeys(_, _, _)
MergeKeys(a, b, ks) ==
    IF ks = <<>> THEN a
    ELSE LET k == Head(ks)
         IN MergeKeys(IF Has(b, k) /\ ~Has(a, k) THEN With(a, k, Get(b, k))
                      ELSE a,
                      b, Tail(ks))

\* the dict holding the keys of both a and b (of a, where both hold one)
Merge(a, b) == MergeKeys(a, b, AllKeys)

\* single-key nodes, merged into nodes that carry several dispatch keys
KeyedNodes ==
    {With(Blank, "properties", <<Prop("p1", T("integer"))>>),
     With(Blank, "properties", <<Prop("p1", Blank)>>),
     With(Blank, "allOf", <<T("string")>>),
     With(Blank, "allOf", <<Ref("#/$defs/missing")>>),
     With(Blank, "anyOf", <<T("integer"), T("string")>>),
     With(Blank, "anyOf", <<T("object")>>),
     With(Blank, "oneOf", <<T("boolean")>>),
     With(Blank, "oneOf", <<Ref("#/$defs/D")>>),
     With(Blank, "enum", <<EInt(1), EStr(<<"x">>)>>),
     Ref("#/$defs/A"), Ref("#/$defs/missing"),
     T("string"), T("integer"), T("object"),
     StringNode(<<1>>, <<>>, <<>>)}

MultiKeyNodes ==
    {Merge(a, b) : a \in KeyedNodes, b \in KeyedNodes}
    \cup {Merge(Merge(a, b), T("string")) : a \in KeyedNodes, b \in KeyedNodes}

Roots == LeafNodes \cup ListNodes \cup NestedNodes \cup MultiKeyNodes

\* a document: its root node and $defs, its "$id" ("" when it declares
\* none), whether check_schema accepts it, whether json.loads parses it
Doc(root, id, valid, wellformed) ==
    [root |-> root, defs |-> Defs, id |-> id, valid |-> valid,
     wellformed |-> wellformed]

Docs ==
    {Doc(r, "", TRUE, TRUE) : r \in Roots}
    \cup {Doc(r, id, v, w) :
            r \in {T("integer"), Blank, Ref("#/$defs/A"),
                   With(Blank, "anyOf", <<Ref("#/$defs/B"), T("string")>>)},
            id \in {"", "urn:schema"}, v \in BOOLEAN, w \in BOOLEAN}

(***************************************************************************)
(* build_regex_from_schema, one action per statement.                      *)
(***************************************************************************)
NoResolver == [id |-> 0, base_uri |-> "", uri |-> "", root |-> Blank, defs |-> Defs]
NoResult == Out([kind |-> "none", re |-> "", err |-> NoErr], <<>>, 0)
NoStats == [trace |-> <<>>, maxd |-> 0, reentered |-> FALSE]

Init ==
    /\ doc \in Docs
    /\ pc = "start"
    /\ resolver = NoResolver
    /\ result = NoResult
    /\ log = <<>>
    /\ stack = <<>>
    /\ exc = NoErr
    /\ stats = NoStats

\* check_schema with the validator's verdict dropped
check_schema_unchecked ==
    /\ pc = "start"
    /\ log' = Append(log, "check_schema")
    /\ pc' = "checked"
    /\ UNCHANGED <<doc, resolver, result, stack, exc, stats>>

\* Validator.check_schema(schema): an invalid schema raises SchemaError
check_schema ==
    /\ pc = "start"
    /\ log' = Append(log, "check_schema")
    /\ IF doc.valid
       THEN pc' = "checked" /\ UNCHANGED result
       ELSE /\ pc' = "failed"
            /\ result' = Out(Fail(Err("SchemaError", Blank)), <<>>, 0)
    /\ UNCHANGED <<doc, resolver, stack, exc, stats>>

\* schema = json.loads(schema)
json_loads ==
    /\ pc = "checked"
    /\ log' = Append(log, "json.loads")
    /\ IF doc.wellformed
       THEN pc' = "parsed" /\ UNCHANGED result
       ELSE /\ pc' = "failed"
            /\ result' = Out(Fail(Err("JSONDecodeError", Blank)), <<>>, 0)
    /\ UNCHANGED <<doc, resolver, stack, exc, stats>>

\* the Resource, its uri, the Registry holding it, and registry.resolver()
build_resolver ==
    /\ pc = "parsed"
    /\ log' = Append(log, "resolver")
    /\ resolver' = [id |-> resolver.id + 1,
                    base_uri |-> "",
                    uri |-> IF doc.id # "" THEN doc.id ELSE "",
                    root |-> doc.root,
                    defs |-> doc.defs]
    /\ pc' = "resolved"
    /\ UNCHANGED <<doc, result, stack, exc, stats>>

\* return to_regex(resolver, content), the whole recursion in one step
translate ==
    /\ pc = "resolved"
    /\ log' = Append(log, "to_regex")
    /\ result' = to_regex(resolver, doc.root, 1)
    /\ pc' = IF result'.kind = "ok" THEN "done" ELSE "failed"
    /\ UNCHANGED <<doc, resolver, stack, exc, stats>>

Next == check_schema \/ json_loads \/ build_resolver \/ translate

Spec == Init /\ [][Next]_vars

(***************************************************************************)
(* to_regex call by call: `stack` holds one frame per call in progress     *)
(* (the node, its plan, the fragments its recursive calls returned so      *)
(* far), `exc` the exception in flight.                                    *)
(***************************************************************************)
Frame(res, instance) ==
    [res |-> res, instance |-> instance, plan |-> plan(res, instance),
     frags |-> <<>>]

Top == stack[Len(stack)]
Pop == SubSeq(stack, 1, Len(stack) - 1)

\* a call to_regex(res, instance) made with the frames of `stack` in progress
Enter(res, instance) ==
    LET depth == Len(stack) + 1
    IN IF depth > StackLimit
       THEN LET e == Err("RecursionError", Blank)
            IN /\ exc' = e
               /\ stack' = stack
               /\ stats' = [stats EXCEPT
                    !.trace = Append(@, Event("raise", res.id, instance, depth, e))]
       ELSE /\ exc' = exc
            /\ stack' = Append(stack, Frame(res, instance))
            /\ stats' =
                [trace |-> stats.trace
                    \o <<Event("call", res.id, instance, depth, NoErr)>>
                    \o (IF dispatch(instance) = "$ref"
                        THEN <<Event("lookup", res.id, instance, depth, NoErr)>>
                        ELSE <<>>),
                 maxd |-> Max2(stats.maxd, depth),
                 reentered |-> \/ stats.reentered
                               \/ /\ dispatch(instance) = "$ref"
                                  /\ \E i \in 1..Len(stack) :
                                        stack[i].instance = instance]

\* the first call, from build_regex_from_schema
rec_call_root ==
    /\ pc = "resolved"
    /\ log' = Append(log, "to_regex")
    /\ pc' = "to_regex"
    /\ Enter(resolver, doc.root)
    /\ UNCHANGED <<doc, resolver, result>>

\* the next recursive call of the call on top
rec_call ==
    /\ pc = "to_regex" /\ exc = NoErr /\ stack # <<>>
    /\ Top.plan.kind = "calls"
    /\ Len(Top.frags) < Len(Top.plan.subs)
    /\ Enter(child_resolver(Top.res, Top.instance),
             Top.plan.subs[Len(Top.frags) + 1])
    /\ UNCHANGED <<pc, doc, resolver, result, log>>

\* the call on top raises
rec_raise ==
    /\ pc = "to_regex" /\ exc = NoErr /\ stack # <<>>
    /\ Top.plan.kind = "leaf" /\ Top.plan.res.kind = "err"
    /\ exc' = Top.plan.res.err
    /\ stack' = Pop
    /\ stats' = [stats EXCEPT !.trace =
                    Append(@, Event("raise", Top.res.id, Top.instance,
                                    Len(stack), Top.plan.res.err))]
    /\ UNCHANGED <<pc, doc, resolver, result, log>>

\* the call on top returns its fragment, to the call below it or, the first
\* call, to build_regex_from_schema
rec_return ==
    /\ pc = "to_regex" /\ exc = NoErr /\ stack # <<>>
    /\ \/ Top.plan.kind = "leaf" /\ Top.plan.res.kind = "ok"
       \/ Top.plan.kind = "calls" /\ Len(Top.frags) = Len(Top.plan.subs)
    /\ LET re == IF Top.plan.kind = "leaf" THEN Top.plan.res.re
                 ELSE assemble(Top.instance, Top.frags)
       IN IF Len(stack) = 1
          THEN /\ stack' = <<>>
               /\ result' = Out(Ok(re), stats.trace, stats.maxd)
               /\ pc' = "done"
          ELSE /\ stack' = [Pop EXCEPT ![Len(stack) - 1].frags = Append(@, re)]
               /\ UNCHANGED <<result, pc>>
    /\ UNCHANGED <<doc, resolver, log, exc, stats>>

\* an exception in flight leaves the call on top, which does not catch it,
\* or, with no call left, build_regex_from_schema
rec_unwind ==
    /\ pc = "to_regex" /\ exc # NoErr
    /\ IF stack = <<>>
       THEN /\ result' = Out(Fail(exc), stats.trace, stats.maxd)
            /\ pc' = "failed"
            /\ UNCHANGED stack
       ELSE /\ stack' = Pop
            /\ UNCHANGED <<result, pc>>
    /\ UNCHANGED <<doc, resolver, log, exc, stats>>

NextRec ==
    \/ check_schema \/ json_loads \/ build_resolver
    \/ rec_call_root \/ rec_call \/ rec_raise \/ rec_return \/ rec_unwind

RecSpec == Init /\ [][NextRec]_vars /\ WF_vars(NextRec)

\* the call-by-call run ends as the function says
RecAgrees ==
    pc \in {"done", "failed"} /\ "to_regex" \in Range(log)
        => result = to_regex(resolver, doc.root, 1)

(***************************************************************************)
(* The properties checked.  They are stated of every to_regex call of a    *)
(* finished translation: the first call and every recursive one.           *)
(***************************************************************************)
\* to_regex has run and build_regex_from_schema has ended
Translated == pc \in {"done", "failed"} /\ "to_regex" \in Range(log)

\* the to_regex calls of the translation, as events of its trace
CallEvents == SelectSeq(result.trace, LAMBDA e : e.op = "call")

\* the to_regex call of event e, evaluated on its own
Redo(e) == to_regex(resolver, e.node, e.depth)

\* the first of the dispatch keys a node holds, "none" when it holds none
FirstKey(instance) ==
    LET held == SelectSeq(RankedKeys, LAMBDA k : Has(instance, k))
    IN IF held = <<>> THEN "none" ELSE held[1]

RECURSIVE WithoutAll(_, _)
WithoutAll(instance, ks) ==
    IF ks = <<>> THEN instance
    ELSE WithoutAll(Without(instance, Head(ks)), Tail(ks))

\* the node with the dispatch keys of `ks` that rank after its first removed
Trimmed(instance, ks) ==
    LET first == FirstKey(instance)
        pos == CHOOSE i \in 1..Len(RankedKeys) : RankedKeys[i] = first
    IN IF first = "none" THEN instance
       ELSE WithoutAll(instance,
                SelectSeq(SubSeq(RankedKeys, pos + 1, Len(RankedKeys)),
                          LAMBDA k : k \in ks))

\* what a call came to and did: its fragment or the class of its exception,
\* the nodes of the recursive calls below it, the references looked up
Did(o, depth) ==
    LET below == SelectSeq(o.trace, LAMBDA e : e.op = "call" /\ e.depth > depth)
        looked == SelectSeq(o.trace, LAMBDA e : e.op = "lookup")
    IN [kind |-> o.kind, re |-> o.re, err |-> o.err.type,
        calls |-> [i \in 1..Len(below) |-> below[i].node],
        lookups |-> [i \in 1..Len(looked) |-> looked[i].node.ref]]

\* the same call on the node trimmed of the later keys among ks comes to
\* the same and does the same
SameTrimmed(e, ks) ==
    Did(Redo(e), e.depth)
        = Did(to_regex(resolver, Trimmed(e.node, ks), e.depth), e.depth)

\* C1 as claimed: every call comes to the same result as on the node with
\* all dispatch keys ranked after its first removed.
C1_LaterKeysIgnored ==
    Translated =>
        \A i \in 1..Len(CallEvents) :
            SameTrimmed(CallEvents[i], Range(RankedKeys))

\* C1, amended: every to_regex call acts on the first key the node holds in
\* the order properties, allOf, anyOf, oneOf, enum, $ref, type, and comes to
\* the same result, with the same recursive calls and lookups, as on the
\* node with the later dispatch keys removed, save that a node translated
\* by `enum` keeps its `type`, which that branch reads.
C1_LaterKeysIgnoredButEnumType ==
    Translated =>
        \A i \in 1..Len(CallEvents) :
            LET e == CallEvents[i]
            IN /\ dispatch(e.node) = FirstKey(e.node)
               /\ SameTrimmed(e, IF FirstKey(e.node) = "enum"
                                 THEN Range(RankedKeys) \ {"type"}
                                 ELSE Range(RankedKeys))

\* a translation that returned a fragment for a root holding `allOf` and,
\* ignored, a `$ref` that does not resolve and a `type`
C1_Witness ==
    /\ Translated /\ result.kind = "ok"
    /\ FirstKey(doc.root) = "allOf"
    /\ {"$ref", "type"} \subseteq doc.root.keys
    /\ ~Resolvable(resolver, doc.root.ref)

\* the nodes of the recursive calls directly below the call of event e
DirectCalls(e) ==
    LET direct == SelectSeq(Redo(e).trace,
                    LAMBDA x : x.op = "call" /\ x.depth = e.depth + 1)
    IN [i \in 1..Len(direct) |-> direct[i].node]

\* the fragments of the recursive calls directly below the call of event e
ChildFrags(e, subs) ==
    [i \in 1..Len(subs) |-> to_regex(resolver, subs[i], e.depth + 1).re]

ChildrenTranslate(e, subs) ==
    \A i \in 1..Len(subs) : to_regex(resolver, subs[i], e.depth + 1).kind = "ok"

\* C2: a node translated by `properties` whose N values all translate gives
\* an opening brace, the N properties in declared order (whitespace, quoted
\* name, whitespace, colon, whitespace, the value's fragment) joined by
\* whitespace-and-comma separators, so max(N - 1, 0) of them and none after
\* the last, then whitespace and a closing brace.
C2_PropertiesInOrder ==
    Translated =>
        \A i \in 1..Len(CallEvents) :
            LET e == CallEvents[i]
                props == e.node.properties
                values == [j \in 1..Len(props) |-> props[j].value]
                frags == ChildFrags(e, values)
                piece(j) ==
                    whitespace \o "\"" \o props[j].name \o "\"" \o whitespace
                        \o ":" \o whitespace \o frags[j]
            IN FirstKey(e.node) = "properties" /\ ChildrenTranslate(e, values)
                => /\ Redo(e).kind = "ok"
                   /\ Redo(e).re =
                        "\\{" \o JoinWith([j \in 1..Len(props) |-> piece(j)],
                                          whitespace \o ",")
                            \o whitespace \o "\\}"

\* a fragment returned for a root with three properties declared in the
\* order p3, p2, p1
C2_Witness ==
    /\ Translated /\ result.kind = "ok"
    /\ FirstKey(doc.root) = "properties"
    /\ Len(doc.root.properties) = 3
    /\ doc.root.properties[1].name = "p3"
    /\ doc.root.properties[3].name = "p1"

RECURSIVE Factorial(_)
Factorial(n) == IF n = 0 THEN 1 ELSE n * Factorial(n - 1)

RECURSIVE ArrangementCount(_, _)
\* the sum of n!/(n-j)! for j in 1..k
ArrangementCount(n, k) ==
    IF k = 0 THEN 0
    ELSE Factorial(n) \div Factorial(n - k) + ArrangementCount(n, k - 1)

\* the ordered arrangements of the non-empty subsets of the positions 1..n
Arrangements(n) ==
    {p \in UNION {[1..r -> 1..n] : r \in 1..n} :
        \A i, j \in 1..Len(p) : i # j => p[i] # p[j]}

\* C3: a node translated by `anyOf` whose N sub-schemas all translate gives
\* one group, the `|`-alternation of one alternative per ordered arrangement
\* of each non-empty subset of the N fragments (each arrangement once, the
\* alternative the concatenation of its fragments), so that there are
\* N!/(N-1)! + ... + N!/0! alternatives, and each sub-schema is translated
\* exactly once.
C3_AnyOfArrangements ==
    Translated =>
        \A i \in 1..Len(CallEvents) :
            LET e == CallEvents[i]
                subs == e.node.anyOf
                n == Len(subs)
                frags == ChildFrags(e, subs)
                arrs == anyOf_arrangements(n)
                alternative(p) ==
                    "(" \o Join([j \in 1..Len(p) |-> frags[p[j]]]) \o ")"
            IN FirstKey(e.node) = "anyOf" /\ ChildrenTranslate(e, subs)
                => /\ Range(arrs) = Arrangements(n)
                   /\ Len(arrs) = Cardinality(Arrangements(n))
                   /\ Len(arrs) = ArrangementCount(n, n)
                   /\ Redo(e).kind = "ok"
                   /\ Redo(e).re =
                        "(" \o JoinWith([k \in 1..Len(arrs) |->
                                            alternative(arrs[k])], "|") \o ")"
                   /\ DirectCalls(e) = subs

\* a fragment returned for a root with three sub-schemas under `anyOf`
C3_Witness ==
    /\ Translated /\ result.kind = "ok"
    /\ FirstKey(doc.root) = "anyOf"
    /\ Len(doc.root.anyOf) = 3
    /\ Cardinality(Range(doc.root.anyOf)) = 3

RECURSIVE Inlined(_)
\* the tree with every node that is translated by `$ref`, and whose
\* reference resolves, replaced by the definition it resolves to
Inlined(instance) ==
    LET key == FirstKey(instance)
        each(subs) == [i \in 1..Len(subs) |-> Inlined(subs[i])]
    IN CASE key = "$ref" ->
              IF Resolvable(resolver, instance.ref)
              THEN IF instance.ref = "#" THEN doc.root
                   ELSE doc.defs[instance.ref]
              ELSE instance
         [] key = "properties" ->
              With(instance, "properties",
                   [i \in 1..Len(instance.properties) |->
                        Prop(instance.properties[i].name,
                             Inlined(instance.properties[i].value))])
         [] key = "allOf" -> With(instance, "allOf", each(instance.allOf))
         [] key = "anyOf" -> With(instance, "anyOf", each(instance.anyOf))
         [] key = "oneOf" -> With(instance, "oneOf", each(instance.oneOf))
         [] /\ key = "type" /\ instance.type = TypeName("array")
            /\ Has(instance, "items") ->
              With(instance, "items", each(instance.items))
         [] OTHER -> instance

\* the fragment or the exception of a call
Outcome(o) == [kind |-> o.kind, re |-> o.re, err |-> o.err]

\* C4: translating a tree gives the very result (the same fragment, or the
\* same exception) of translating the tree with the nodes translated by
\* `$ref` replaced by the definitions they resolve to, every call on such a
\* node gives the result of the call on its definition, and every call and
\* every lookup, across any number of `$ref` hops, is made with the one
\* resolver build_regex_from_schema constructed.
C4_RefIsInlining ==
    Translated =>
        /\ Outcome(result) = Outcome(to_regex(resolver, Inlined(doc.root), 1))
        /\ \A i \in 1..Len(CallEvents) :
              LET e == CallEvents[i]
              IN FirstKey(e.node) = "$ref" /\ Resolvable(resolver, e.node.ref)
                    => Outcome(Redo(e)) =
                         Outcome(to_regex(resolver, Inlined(e.node), e.depth))
        /\ \A i \in 1..Len(result.trace) : result.trace[i].rid = resolver.id

\* a fragment returned through two `$ref` hops below the root
C4_Witness ==
    /\ Translated /\ result.kind = "ok"
    /\ FirstKey(doc.root) # "$ref"
    /\ \E i, j \in 1..Len(result.trace) :
          /\ i < j
          /\ result.trace[i].op = "lookup" /\ result.trace[j].op = "lookup"
          /\ result.trace[i].depth < result.trace[j].depth

\* a node no branch of the dispatch gives a fragment for: one that holds
\* none of the dispatch keys, or one translated by `type` whose type is
\* neither a list nor one of the six names the branch knows
Unsupported(instance) ==
    \/ FirstKey(instance) = "none"
    \/ /\ FirstKey(instance) = "type"
       /\ ~instance.type.isList
       /\ instance.type.name \notin
            {"string", "number", "integer", "array", "boolean", "null"}

\* C5: every to_regex call on an unsupported node raises NotImplementedError
\* naming that node, and never returns a fragment.
C5_UnsupportedRaises ==
    Translated =>
        \A i \in 1..Len(CallEvents) :
            LET e == CallEvents[i]
            IN Unsupported(e.node)
                => /\ Redo(e).kind = "err"
                   /\ Redo(e).err = Err("NotImplementedError", e.node)

\* the translation failed on {"type": "object"} below the root
C5_Witness ==
    /\ Translated /\ pc = "failed"
    /\ doc.root # T("object")
    /\ result.err = Err("NotImplementedError", T("object"))
    /\ \E i \in 1..Len(CallEvents) :
          CallEvents[i].node = T("object") /\ CallEvents[i].depth > 1

\* C6 as claimed: every call on a node translated by `enum` returns the group
\* of its members in list order joined by `|`, each a double-quoted escaped
\* literal when the node's type is "string" and its escaped str() in every
\* other case, a node without `type` included; the branch never fails.
C6_EnumNeverFails ==
    Translated =>
        \A i \in 1..Len(CallEvents) :
            LET e == CallEvents[i]
                members == e.node.enum
                quoted == Has(e.node, "type") /\ e.node.type = TypeName("string")
                literal(m) ==
                    IF quoted THEN "\"" \o re_escape(str(m)) \o "\""
                    ELSE re_escape(str(m))
            IN FirstKey(e.node) = "enum"
                => /\ Redo(e).kind = "ok"
                   /\ Redo(e).re =
                        "(" \o JoinWith([j \in 1..Len(members) |->
                                            literal(members[j])], "|") \o ")"

\* the text of a length bound: its decimal digits, empty when absent
BoundText(has, value) == IF has THEN Join(IntChars(value)) ELSE ""

\* C7: every call on a node translated by `type` = "string" that holds
\* minLength or maxLength returns the quoted inner-string-character body
\* repeated {min,max}, the bounds as given and an absent one empty, also
\* when maxLength < minLength (no exception, no swap), and whatever
\* `pattern` the node holds.
C7_LengthBoundsVerbatim ==
    Translated =>
        \A i \in 1..Len(CallEvents) :
            LET e == CallEvents[i]
                n == e.node
            IN (/\ FirstKey(n) = "type" /\ n.type = TypeName("string")
                /\ Has(n, "minLength") \/ Has(n, "maxLength"))
                => /\ Redo(e).kind = "ok"
                   /\ Redo(e).re =
                        "\"" \o STRING_INNER \o "{"
                            \o BoundText(Has(n, "minLength"), n.minLength) \o ","
                            \o BoundText(Has(n, "maxLength"), n.maxLength)
                            \o "}\""
                   /\ Outcome(Redo(e)) =
                        Outcome(to_regex(resolver, Without(n, "pattern"),
                                         e.depth))

\* a fragment returned for a string with maxLength < minLength and a pattern
C7_Witness ==
    /\ Translated /\ result.kind = "ok"
    /\ \E i \in 1..Len(CallEvents) :
          LET n == CallEvents[i].node
          IN /\ FirstKey(n) = "type" /\ n.type = TypeName("string")
             /\ {"minLength", "maxLength", "pattern"} \subseteq n.keys
             /\ n.maxLength < n.minLength

\* the statements of build_regex_from_schema, in the order of the source
StepOrder == <<"check_schema", "json.loads", "resolver", "to_regex">>

\* C8: the steps of build_regex_from_schema run in the order check_schema,
\* json.loads, the construction of the resolver, the first to_regex call,
\* each at most once and check_schema exactly once in a run that ended; the
\* one resolver constructed is the one every call and lookup uses; a schema
\* that fails validation ends the run at once, with no resolver built and
\* no to_regex call made.
C8_StepsInOrder ==
    /\ Len(log) <= Len(StepOrder)
    /\ log = SubSeq(StepOrder, 1, Len(log))
    /\ pc # "start" => log # <<>> /\ log[1] = "check_schema"
    /\ resolver.id = (IF "resolver" \in Range(log) THEN 1 ELSE 0)
    /\ result.trace # <<>> => "to_regex" \in Range(log)
    /\ \A i \in 1..Len(result.trace) : result.trace[i].rid = 1
    /\ pc = "done" => log = StepOrder
    /\ ~doc.valid /\ pc # "start"
        => /\ pc = "failed"
           /\ log = <<"check_schema">>
           /\ resolver = NoResolver
           /\ result.trace = <<>>
           /\ result.err.type = "SchemaError"

\* a run that went through all four steps and returned a fragment found
\* through a reference
C8_Witness ==
    /\ pc = "done" /\ log = StepOrder /\ doc.valid
    /\ \E i \in 1..Len(result.trace) : result.trace[i].op = "lookup"

\* C10: an exception raised in any to_regex call, at any depth, is the
\* exception the translation ends with: it is the only one raised, nothing
\* is translated after it, every enclosing call ends with it, and a
\* translation that returns a fragment raised none.
C10_ErrorsPropagate ==
    Translated =>
        LET raised == SelectSeq(result.trace, LAMBDA e : e.op = "raise")
        IN /\ result.kind \in {"ok", "err"}
           /\ result.kind = "ok" <=> raised = <<>>
           /\ result.kind = "ok" <=> pc = "done"
           /\ raised # <<>>
                => /\ Len(raised) = 1
                   /\ result.trace[Len(result.trace)] = raised[1]
                   /\ result.err = raised[1].err
                   /\ result.re = ""
           /\ \A i \in 1..Len(CallEvents) :
                Redo(CallEvents[i]).kind = "err"
                    => Redo(CallEvents[i]).err = result.err

\* a translation that failed on a reference that does not resolve, or on an
\* unsupported node, three calls deep or deeper
C10_Witness ==
    /\ Translated /\ pc = "failed"
    /\ result.err.type \in {"Unresolvable", "NotImplementedError"}
    /\ \E i \in 1..Len(result.trace) :
          result.trace[i].op = "raise" /\ result.trace[i].depth >= 3

(***************************************************************************)
(* Termination and the depth of the recursion, on the call-by-call run.    *)
(***************************************************************************)
\* whether the document resolves the reference
CanResolve(path) ==
    doc.id = "" /\ (path = "#" \/ path \in DOMAIN doc.defs)

\* the node of the document a reference names
Target(path) == IF path = "#" THEN doc.root ELSE doc.defs[path]

\* the sub-schemas of a node that are translated with it, a reference
\* counting as holding the node it names
SubSchemas(instance) ==
    LET key == FirstKey(instance)
    IN CASE key = "properties" ->
              {instance.properties[i].value : i \in 1..Len(instance.properties)}
         [] key = "allOf" -> Range(instance.allOf)
         [] key = "anyOf" -> Range(instance.anyOf)
         [] key = "oneOf" -> Range(instance.oneOf)
         [] key = "$ref" ->
              IF CanResolve(instance.ref) THEN {Target(instance.ref)} ELSE {}
         [] /\ key = "type" /\ instance.type = TypeName("array")
            /\ Has(instance, "items") -> Range(instance.items)
         [] OTHER -> {}

RECURSIVE RefsIn(_)
\* the references of the `$ref` nodes in a node's tree, none followed
RefsIn(instance) ==
    IF FirstKey(instance) = "$ref" THEN {instance.ref}
    ELSE UNION {RefsIn(x) : x \in SubSchemas(instance)}

RECURSIVE RefsFrom(_)
\* the references reached from those of S, following the ones that resolve
RefsFrom(S) ==
    LET more == S \cup UNION {RefsIn(Target(p)) : p \in {q \in S : CanResolve(q)}}
    IN IF more = S THEN S ELSE RefsFrom(more)

\* a `$ref` reached from the root resolves to a node that reaches it again
RefCyclic ==
    \E p \in RefsFrom(RefsIn(doc.root)) :
        CanResolve(p) /\ p \in RefsFrom(RefsIn(Target(p)))

RECURSIVE SetMax(_)
SetMax(S) ==
    IF S = {} THEN 0
    ELSE LET x == CHOOSE y \in S : TRUE IN Max2(x, SetMax(S \ {x}))

RECURSIVE NestingDepth(_)
\* the nesting depth of a node's tree, references followed (of a tree
\* without a reference cycle)
NestingDepth(instance) ==
    1 + SetMax({NestingDepth(x) : x \in SubSchemas(instance)})

Terminal == pc \in {"done", "failed"}

\* the calls in progress, and at the end the deepest nesting reached
DepthNow == Max2(Len(stack), IF Terminal THEN result.maxd ELSE 0)

\* a tree without a reference cycle is translated without exhausting the
\* stack; one with a cycle never gives a fragment; a reference acted on
\* while a call on it is in progress ends in stack exhaustion
TerminationSafety ==
    /\ ~RefCyclic /\ Terminal => result.err.type # "RecursionError"
    /\ RefCyclic => pc # "done" /\ result.kind # "ok"
    /\ stats.reentered /\ Terminal
        => result.kind = "err" /\ result.err.type = "RecursionError"

====
